---- MODULE Spec2Model ----
(***************************************************************************)
(* Facial recognition service (services/facial-recognition-service/main.py) *)
(* One Flask process, four routes (health, register, verify, delete) over a *)
(* single SQLite table facial_templates(fan_id PRIMARY KEY, encoding BLOB). *)
(*                                                                          *)
(* Numbers: Python floats are modelled as exact rationals <<num, den>> in   *)
(* lowest terms; embeddings are vectors of integers in tenths, so that the  *)
(* Euclidean distances between the modelled faces are exact.                *)
(***************************************************************************)
EXTENDS Integers, Sequences, FiniteSets, TLC

\* ------------------------------------------------------------------ bounds
MaxCalls == 4          \* requests served in one behaviour of Spec
BytesPerElem == 2      \* width of one stored vector element (little endian)

\* ------------------------------------------------------------ input domains
None == "<None>"       \* Python None: a key absent from the JSON body

UserIds == {"f1", "f2"}
FanIdVals == {None, ""} \cup UserIds

\* image payloads: the base64 text of the request
\*   ""    empty string            "!!"  not the base64 of an image
\*   "z"   image, no face          "a","c","d" image, one face
\*   "m"   image, two faces
OneFace == {"a", "c", "d"}
Payloads == {None, "", "!!", "z", "m"} \cup OneFace

\* SIMILARITY_THRESHOLD in tenths (0.6 is the default); positive values only:
\* with 0 the division of line 212 yields nan or inf instead of a number
Thresholds == {6, 10}

Faults == {"none", "connect", "execute", "commit"}

\* --------------------------------------------------------------- rationals
RECURSIVE Gcd(_, _)
Gcd(a, b) == IF b = 0 THEN a ELSE Gcd(b, a % b)

Abs(x) == IF x < 0 THEN -x ELSE x

\* a rational in lowest terms with a positive denominator
Rat(n, d) ==
    LET s == IF d < 0 THEN -1 ELSE 1
        g == Gcd(Abs(n), Abs(d))
    IN  <<(s * n) \div g, (s * d) \div g>>

RDiv(x, y) == Rat(x[1] * y[2], x[2] * y[1])
RSub(x, y) == Rat(x[1] * y[2] - y[1] * x[2], x[2] * y[2])
RLt(x, y) == x[1] * y[2] < y[1] * x[2]
\* Python's min(a, b) and max(a, b): the first argument unless the second wins
RMin(x, y) == IF RLt(y, x) THEN y ELSE x
RMax(x, y) == IF RLt(x, y) THEN y ELSE x

R0 == <<0, 1>>
R1 == <<1, 1>>

\* ------------------------------------------------------------ Python values
PyStr(s) == [t |-> "str", v |-> s]
PyBool(b) == [t |-> "bool", v |-> b]
PyFloat(x) == [t |-> "float", v |-> x]
NpBool(b) == [t |-> "np.bool_", v |-> b]
NpFloat(x) == [t |-> "np.float64", v |-> x]

\* float(x): a Python float from a Python or numpy float
ToFloat(x) == PyFloat(x.v)

\* types the JSON provider of Flask can serialize; numpy.float64 subclasses
\* float, numpy.bool_ does not subclass bool
JsonTypes == {"str", "bool", "float", "np.float64"}
Serializable(body) == \A k \in DOMAIN body : body[k].t \in JsonTypes

\* ---------------------------------------------------- external recognition
\* base64.b64decode + face_recognition.load_image_file
Decodable(image_base64) == image_base64 # "!!"

\* face_recognition.face_encodings(image): one vector per detected face
face_encodings(image) ==
    CASE image = "a" -> << <<0, 0>> >>
      [] image = "c" -> << <<6, 0>> >>
      [] image = "d" -> << <<6, 8>> >>
      [] image = "m" -> << <<0, 0>>, <<6, 8>> >>
      [] OTHER -> << >>

RECURSIVE ISqrtFrom(_, _)
ISqrtFrom(n, r) == IF (r + 1) * (r + 1) > n THEN r ELSE ISqrtFrom(n, r + 1)
ISqrt(n) == ISqrtFrom(n, 0)

RECURSIVE SumSq(_, _, _)
SumSq(u, w, i) ==
    IF i > Len(u) THEN 0
    ELSE (u[i] - w[i]) * (u[i] - w[i]) + SumSq(u, w, i + 1)

\* face_recognition.face_distance([known], probe)[0]: Euclidean norm
face_distance(known, probe) == NpFloat(Rat(ISqrt(SumSq(known, probe, 1)), 10))

\* --------------------------------------------------------- blob conversion
RECURSIVE ElemBytes(_, _)
ElemBytes(x, k) == IF k = 0 THEN << >> ELSE <<x % 256>> \o ElemBytes(x \div 256, k - 1)

RECURSIVE tobytes(_)
tobytes(vec) ==
    IF vec = << >> THEN << >>
    ELSE ElemBytes(Head(vec), BytesPerElem) \o tobytes(Tail(vec))

RECURSIVE ElemValue(_)
ElemValue(bs) == IF bs = << >> THEN 0 ELSE Head(bs) + 256 * ElemValue(Tail(bs))

RECURSIVE frombuffer(_)
frombuffer(bs) ==
    IF Len(bs) < BytesPerElem THEN << >>
    ELSE <<ElemValue(SubSeq(bs, 1, BytesPerElem))>>
         \o frombuffer(SubSeq(bs, BytesPerElem + 1, Len(bs)))

\* ------------------------------------------------------------------- store
\* rows of facial_templates; fan_id is the primary key (created_at and
\* updated_at are written but never read by any handler and are left out)
Row(fan_id, encoding) == [fan_id |-> fan_id, encoding |-> encoding]

RowsOf(db, fan_id) == {r \in db : r.fan_id = fan_id}

\* variant: a plain INSERT that keeps the row already there
InsertKeepingOld(db, fan_id, encoding) == db \cup {Row(fan_id, encoding)}

\* INSERT OR REPLACE INTO facial_templates (fan_id, encoding, updated_at)
InsertOrReplace(db, fan_id, encoding) ==
    (db \ RowsOf(db, fan_id)) \cup {Row(fan_id, encoding)}

\* fetchone() without a row (Python None); a stored blob is never empty
NoRow == << >>

\* SELECT encoding FROM facial_templates WHERE fan_id = ? ; fetchone()
FetchOne(db, fan_id) ==
    IF RowsOf(db, fan_id) = {} THEN NoRow
    ELSE (CHOOSE r \in RowsOf(db, fan_id) : TRUE).encoding

\* DELETE FROM facial_templates WHERE fan_id = ?
DeleteFrom(db, fan_id) == db \ RowsOf(db, fan_id)
RowCount(db, fan_id) == Cardinality(RowsOf(db, fan_id))


\* ---------------------------------------------------------------- handlers
Truthy(x) == x \notin {None, ""}

Err(msg) == [error |-> PyStr(msg)]

\* what a handler did: response, table after the call, and the number of
\* connections it opened without calling close() on them (such a connection
\* is only released when the interpreter finalizes the object)
Out(status, body, db, leak) ==
    [status |-> status, body |-> body, rows |-> db, leak |-> leak]

\* return jsonify(body), status  inside  try: ... except Exception: 500
Respond(status, body, db, leak) ==
    IF Serializable(body) THEN Out(status, body, db, leak)
    ELSE Out(500, Err("Internal server error"), db, leak)

\* the checks common to register and verify: the JSON body and its two fields
\*   "empty"   request.json is falsy (null, {}, [], "", 0): `not data`
\*   "object"  a non-empty object; a key it lacks reads as None
\*   "bad"     request.json or data.get raises (no JSON body, a non-empty
\*             list, string or number): the except clause answers 500
Validate(data) ==
    IF data.kind = "bad"
        THEN [ok |-> FALSE, status |-> 500, msg |-> "Internal server error"]
    ELSE IF data.kind = "empty"
        THEN [ok |-> FALSE, status |-> 400, msg |-> "No JSON data provided"]
    ELSE IF ~Truthy(data.fan_id)
        THEN [ok |-> FALSE, status |-> 400, msg |-> "fan_id is required"]
    ELSE IF ~Truthy(data.image)
        THEN [ok |-> FALSE, status |-> 400, msg |-> "image is required"]
    ELSE [ok |-> TRUE, status |-> 200, msg |-> ""]

\* variant: with several faces the first one is enrolled
RegisterPrepareFirstFace(data) ==
    IF ~Validate(data).ok
        THEN [ok |-> FALSE, status |-> Validate(data).status,
              msg |-> Validate(data).msg, encoding_bytes |-> << >>]
    ELSE IF ~Decodable(data.image)
        THEN [ok |-> FALSE, status |-> 400, msg |-> "Invalid image format",
              encoding_bytes |-> << >>]
    ELSE LET encodings == face_encodings(data.image) IN
        IF Len(encodings) = 0
            THEN [ok |-> FALSE, status |-> 400, msg |-> "No face detected in image",
                  encoding_bytes |-> << >>]
        ELSE [ok |-> TRUE, status |-> 200, msg |-> "",
              encoding_bytes |-> tobytes(encodings[1])]

\* register, up to the store: decode the image and extract the one encoding
RegisterPrepare(data) ==
    IF ~Validate(data).ok
        THEN [ok |-> FALSE, status |-> Validate(data).status,
              msg |-> Validate(data).msg, encoding_bytes |-> << >>]
    ELSE IF ~Decodable(data.image)
        THEN [ok |-> FALSE, status |-> 400, msg |-> "Invalid image format",
              encoding_bytes |-> << >>]
    ELSE LET encodings == face_encodings(data.image) IN
        IF Len(encodings) = 0
            THEN [ok |-> FALSE, status |-> 400, msg |-> "No face detected in image",
                  encoding_bytes |-> << >>]
        ELSE IF Len(encodings) > 1
            THEN [ok |-> FALSE, status |-> 400, msg |-> "Multiple faces detected",
                  encoding_bytes |-> << >>]
        ELSE [ok |-> TRUE, status |-> 200, msg |-> "",
              encoding_bytes |-> tobytes(encodings[1])]

\* variant: the row written by the statement survives a failed commit
RegisterStoreKeepsWrite(fan_id, encoding_bytes, db, fault) ==
    CASE fault = "connect" -> Out(500, Err("Internal server error"), db, 0)
      [] fault = "execute" -> Out(500, Err("Internal server error"), db, 1)
      [] fault = "commit"  ->
            Out(500, Err("Internal server error"),
                InsertOrReplace(db, fan_id, encoding_bytes), 1)
      [] OTHER ->
            Respond(200,
                    [success |-> PyBool(TRUE), fan_id |-> PyStr(fan_id),
                     message |-> PyStr("Face template registered successfully")],
                    InsertOrReplace(db, fan_id, encoding_bytes), 0)

\* register, the store and the response: connect, INSERT OR REPLACE, commit,
\* close; an exception skips close() and reaches the handler's except clause,
\* and a transaction that was not committed is rolled back
RegisterStore(fan_id, encoding_bytes, db, fault) ==
    CASE fault = "connect" -> Out(500, Err("Internal server error"), db, 0)
      [] fault = "execute" -> Out(500, Err("Internal server error"), db, 1)
      [] fault = "commit"  -> Out(500, Err("Internal server error"), db, 1)
      [] OTHER ->
            Respond(200,
                    [success |-> PyBool(TRUE), fan_id |-> PyStr(fan_id),
                     message |-> PyStr("Face template registered successfully")],
                    InsertOrReplace(db, fan_id, encoding_bytes), 0)

register_face(data, db, fault) ==
    LET pre == RegisterPrepare(data) IN
    IF ~pre.ok THEN Out(pre.status, Err(pre.msg), db, 0)
    ELSE RegisterStore(data.fan_id, pre.encoding_bytes, db, fault)

\* verify, the lookup: connect, SELECT, fetchone, close
\* (raised: the connection or the statement raised; row: the blob or None)
VerifyLookup(fan_id, db, fault) ==
    CASE fault = "connect" -> [raised |-> TRUE, leak |-> 0, row |-> NoRow]
      [] fault = "execute" -> [raised |-> TRUE, leak |-> 1, row |-> NoRow]
      [] OTHER -> [raised |-> FALSE, leak |-> 0, row |-> FetchOne(db, fan_id)]

\* variant: an image without a face is rejected, as register does
VerifyCompareNoFaceRejected(data, row, T, db) ==
    LET stored_encoding == frombuffer(row) IN
    IF ~Decodable(data.image) THEN Out(400, Err("Invalid image format"), db, 0)
    ELSE LET encodings == face_encodings(data.image) IN
        IF Len(encodings) = 0
            THEN Out(400, Err("No face detected in image"), db, 0)
        ELSE IF Len(encodings) > 1
            THEN Out(400, Err("Multiple faces detected"), db, 0)
        ELSE LET distance == face_distance(stored_encoding, encodings[1])
                 SIMILARITY_THRESHOLD == Rat(T, 10)
                 is_match == NpBool(RLt(distance.v, SIMILARITY_THRESHOLD))
                 confidence ==
                     PyFloat(RMax(R0, RMin(R1,
                         RSub(R1, RDiv(distance.v, SIMILARITY_THRESHOLD)))))
             IN  Respond(200,
                         [success |-> PyBool(TRUE), fan_id |-> PyStr(data.fan_id),
                          confidence_score |-> ToFloat(confidence),
                          is_match |-> is_match,
                          distance |-> ToFloat(distance),
                          threshold |-> PyFloat(SIMILARITY_THRESHOLD)],
                         db, 0)

\* verify, after a row was found: decode, extract, compare, answer
VerifyCompare(data, row, T, db) ==
    LET stored_encoding == frombuffer(row) IN
    IF ~Decodable(data.image) THEN Out(400, Err("Invalid image format"), db, 0)
    ELSE LET encodings == face_encodings(data.image) IN
        IF Len(encodings) = 0
            THEN Respond(200,
                         [success |-> PyBool(TRUE), fan_id |-> PyStr(data.fan_id),
                          confidence_score |-> PyFloat(R0),
                          is_match |-> PyBool(FALSE),
                          distance |-> PyFloat(R1),
                          message |-> PyStr("No face detected in image")],
                         db, 0)
        ELSE IF Len(encodings) > 1
            THEN Out(400, Err("Multiple faces detected"), db, 0)
        ELSE LET distance == face_distance(stored_encoding, encodings[1])
                 SIMILARITY_THRESHOLD == Rat(T, 10)
                 is_match == NpBool(RLt(distance.v, SIMILARITY_THRESHOLD))
                 confidence ==
                     PyFloat(RMax(R0, RMin(R1,
                         RSub(R1, RDiv(distance.v, SIMILARITY_THRESHOLD)))))
             IN  Respond(200,
                         [success |-> PyBool(TRUE), fan_id |-> PyStr(data.fan_id),
                          confidence_score |-> ToFloat(confidence),
                          is_match |-> is_match,
                          distance |-> ToFloat(distance),
                          threshold |-> PyFloat(SIMILARITY_THRESHOLD)],
                         db, 0)

\* variant: the image is decoded before the row is looked at
VerifyAnswerDecodeFirst(data, look, T, db) ==
    IF look.raised THEN Out(500, Err("Internal server error"), db, look.leak)
    ELSE IF ~Decodable(data.image)
        THEN Out(400, Err("Invalid image format"), db, 0)
    ELSE IF look.row = NoRow
        THEN Out(404, Err("Face not registered for this fan_id"), db, 0)
    ELSE VerifyCompare(data, look.row, T, db)

\* verify, from the lookup on
VerifyAnswer(data, look, T, db) ==
    IF look.raised THEN Out(500, Err("Internal server error"), db, look.leak)
    ELSE IF look.row = NoRow
        THEN Out(404, Err("Face not registered for this fan_id"), db, 0)
    ELSE VerifyCompare(data, look.row, T, db)

verify_face(data, db, T, fault) ==
    IF ~Validate(data).ok
        THEN Out(Validate(data).status, Err(Validate(data).msg), db, 0)
    ELSE VerifyAnswer(data, VerifyLookup(data.fan_id, db, fault), T, db)

\* variant: rowcount is not looked at
DeleteIgnoringRowcount(fan_id, db, fault) ==
    CASE fault = "connect" -> Out(500, Err("Internal server error"), db, 0)
      [] fault = "execute" -> Out(500, Err("Internal server error"), db, 1)
      [] fault = "commit"  -> Out(500, Err("Internal server error"), db, 1)
      [] OTHER ->
            Respond(200,
                    [success |-> PyBool(TRUE), fan_id |-> PyStr(fan_id),
                     message |-> PyStr("Face template deleted successfully")],
                    DeleteFrom(db, fan_id), 0)

\* delete: connect, DELETE, commit, rowcount, close
delete_face(fan_id, db, fault) ==
    CASE fault = "connect" -> Out(500, Err("Internal server error"), db, 0)
      [] fault = "execute" -> Out(500, Err("Internal server error"), db, 1)
      [] fault = "commit"  -> Out(500, Err("Internal server error"), db, 1)
      [] OTHER ->
            LET deleted == RowCount(db, fan_id) IN
            IF deleted = 0
                THEN Out(404, Err("Face template not found"), DeleteFrom(db, fan_id), 0)
            ELSE Respond(200,
                         [success |-> PyBool(TRUE), fan_id |-> PyStr(fan_id),
                          message |-> PyStr("Face template deleted successfully")],
                         DeleteFrom(db, fan_id), 0)

health_check(db) ==
    Respond(200,
            [status |-> PyStr("healthy"),
             service |-> PyStr("facial-recognition-service"),
             version |-> PyStr("1.0.0")],
            db, 0)


\* -------------------------------------------------------------------- state
VARIABLES
    threshold,   \* SIMILARITY_THRESHOLD, read once at start-up (tenths)
    rows,        \* the rows of facial_templates
    pre,         \* history: the rows as they were when the last request came
                 \*   (concurrent requests: when the first of them came)
    openConns,   \* connections opened by finished requests and never closed
    req,         \* the last request served
    resp,        \* its response: status and JSON body
    calls,       \* number of requests received
    lastReg,     \* history: per identifier, the image of the last successful
                 \*   register not followed by a successful delete, or None
    delSince,    \* history: per identifier, "once" after a delete answered
                 \*   200, "again" after a further delete call, back to "no"
                 \*   at the next successful register
    pc,          \* concurrent requests: position of each worker
    preq,        \* concurrent requests: the request a worker is serving
    ploc,        \* concurrent requests: the worker's locals after its statement
    wlock,       \* concurrent requests: the worker whose connection holds the
                 \*   write lock of the database file (0: nobody)
    readers,     \* concurrent requests: the workers whose connection holds a
                 \*   read lock (a SELECT with a row not fetched yet)
    stale,       \* a connection left open by a failed commit still holds its
                 \*   lock on the file (until the object is collected)
    log          \* history: requests in the order of their store statements

vars == <<threshold, rows, pre, openConns, req, resp, calls, lastReg, delSince,
          pc, preq, ploc, wlock, readers, stale, log>>

seqVars == <<pre, req, resp, lastReg, delSince>>
concVars == <<pc, preq, ploc, wlock, readers, log>>

NumProcs == 2          \* concurrent workers
MaxConcCalls == 2      \* requests served in one behaviour of SpecConc
Procs == 1..NumProcs

\* request bodies: an object with any of the two keys, or no usable object
Bodies ==
    [kind : {"object"}, fan_id : FanIdVals, image : Payloads]
    \cup [kind : {"empty", "bad"}, fan_id : {None}, image : {None}]

Request(op, kind, fan_id, image, fault) ==
    [op |-> op, kind |-> kind, fan_id |-> fan_id, image |-> image,
     fault |-> fault]

NoRequest == Request("none", "none", None, None, "none")
NoResponse == [status |-> 0, body |-> Err("")]
NoLocals ==
    [pos |-> 0, look |-> [raised |-> FALSE, leak |-> 0, row |-> NoRow],
     out |-> Out(0, Err(""), {}, 0)]

\* init_db(): CREATE TABLE IF NOT EXISTS on a fresh database file
Init ==
    /\ threshold \in Thresholds
    /\ rows = {}
    /\ pre = {}
    /\ openConns = 0
    /\ req = NoRequest
    /\ resp = NoResponse
    /\ calls = 0
    /\ lastReg = [u \in UserIds |-> None]
    /\ delSince = [u \in UserIds |-> "no"]
    /\ pc = [p \in Procs |-> "idle"]
    /\ preq = [p \in Procs |-> NoRequest]
    /\ ploc = [p \in Procs |-> NoLocals]
    /\ wlock = 0
    /\ readers = {}
    /\ stale = FALSE
    /\ log = << >>

\* one request served from start to end; store: the handler gets as far as
\* its store statement.  A statement waits for the lock of a connection left
\* open and raises at the timeout, so it works only when no such lock is
\* there; a commit that raises leaves the connection open with its lock.
Served(r, out, store) ==
    /\ calls < MaxCalls
    /\ (store /\ r.fault \in {"none", "commit"}) => ~stale
    /\ stale' = (stale \/ (store /\ r.fault = "commit"))
    /\ calls' = calls + 1
    /\ req' = r
    /\ resp' = [status |-> out.status, body |-> out.body]
    /\ rows' = out.rows
    /\ pre' = rows
    /\ openConns' = openConns + out.leak
    /\ UNCHANGED <<threshold, concVars>>

Register(data, fault) ==
    LET out == register_face(data, rows, fault) IN
    /\ Served(Request("register", data.kind, data.fan_id, data.image, fault), out,
              RegisterPrepare(data).ok)
    /\ lastReg' = IF out.status = 200
                    THEN [lastReg EXCEPT ![data.fan_id] = data.image]
                    ELSE lastReg
    /\ delSince' = IF out.status = 200
                     THEN [delSince EXCEPT ![data.fan_id] = "no"]
                     ELSE delSince

Verify(data, fault) ==
    LET out == verify_face(data, rows, threshold, fault) IN
    /\ Served(Request("verify", data.kind, data.fan_id, data.image, fault), out,
              Validate(data).ok)
    /\ UNCHANGED <<lastReg, delSince>>

Delete(fan_id, fault) ==
    LET out == delete_face(fan_id, rows, fault) IN
    /\ Served(Request("delete", "none", fan_id, None, fault), out, TRUE)
    /\ lastReg' = IF out.status = 200
                    THEN [lastReg EXCEPT ![fan_id] = None]
                    ELSE lastReg
    /\ delSince' = IF out.status = 200
                     THEN [delSince EXCEPT ![fan_id] = "once"]
                     ELSE IF delSince[fan_id] = "no" THEN delSince
                     ELSE [delSince EXCEPT ![fan_id] = "again"]

Health ==
    /\ Served(Request("health", "none", None, None, "none"), health_check(rows),
              FALSE)
    /\ UNCHANGED <<lastReg, delSince>>

\* the interpreter finalizes a connection that was left open: its
\* transaction is rolled back and its lock released
Collect ==
    /\ stale
    /\ stale' = FALSE
    /\ UNCHANGED <<threshold, rows, openConns, calls, seqVars, concVars>>

\* requests come one after the other; in each, the store works ("none") or
\* raises in connect, in the statement or in commit (verify never commits)
Next ==
    \/ \E data \in Bodies, fault \in Faults : Register(data, fault)
    \/ \E data \in Bodies, fault \in Faults \ {"commit"} : Verify(data, fault)
    \/ \E fan_id \in UserIds, fault \in Faults : Delete(fan_id, fault)
    \/ Health
    \/ Collect

Spec == Init /\ [][Next]_vars


\* -------------------------------------------------------- concurrent workers
\* Each worker (a thread of the server) serves one request at a time.  The
\* steps of a handler are the code before its store statement, the statement,
\* the fetch (verify) or the commit (register, delete), and the code after.
\*   - From a write statement to its commit the connection holds the write
\*     lock; the write statement of another connection waits for it and
\*     raises "database is locked" when the busy timeout ends first.
\*   - A SELECT reads the committed table and does not wait for the write
\*     lock of a statement not yet committed.  While its row is not fetched,
\*     the connection holds a read lock; a commit waits for the read locks
\*     of the others and raises at the timeout.
\*   - The connection of a commit that raised is not closed and keeps its
\*     lock: every statement of another connection then waits and raises,
\*     until the connection object is collected.
ConcIds == {"f1", "f2"}
ConcImages == {"z", "a", "c"}
ConcOps == {"register", "verify", "delete"}

DataOf(r) == [kind |-> r.kind, fan_id |-> r.fan_id, image |-> r.image]

LogEntry(r) == [req |-> r, done |-> FALSE, resp |-> NoResponse]

\* the handler runs up to its store statement; a request rejected before
\* it has no store statement and is ordered at this step
Start(p, op, fan_id, image) ==
    LET r == IF op = "delete"
               THEN Request(op, "none", fan_id, None, "none")
               ELSE Request(op, "object", fan_id, image, "none")
        pre0 == IF op = "register" THEN RegisterPrepare(DataOf(r))
                ELSE Validate(DataOf(r))
        early == op # "delete" /\ ~pre0.ok
    IN  /\ pc[p] = "idle"
        /\ calls < MaxConcCalls
        /\ calls' = calls + 1
        /\ preq' = [preq EXCEPT ![p] = r]
        /\ IF early
             THEN /\ log' = Append(log, LogEntry(r))
                  /\ ploc' = [ploc EXCEPT ![p] =
                        [NoLocals EXCEPT !.pos = Len(log) + 1,
                            !.out = Out(pre0.status, Err(pre0.msg), rows, 0)]]
                  /\ pc' = [pc EXCEPT ![p] = "respond"]
             ELSE /\ pc' = [pc EXCEPT ![p] = "execute"]
                  /\ UNCHANGED <<log, ploc>>
        /\ UNCHANGED <<threshold, rows, openConns, wlock, readers, stale, seqVars>>

\* the locals a worker holds after its store statement
StoreLocals(r, db, pos) ==
    CASE r.op = "register" ->
            [NoLocals EXCEPT !.pos = pos,
                !.out = RegisterStore(r.fan_id,
                            RegisterPrepare(DataOf(r)).encoding_bytes, db, r.fault)]
      [] r.op = "verify" ->
            [NoLocals EXCEPT !.pos = pos,
                !.look = VerifyLookup(r.fan_id, db, r.fault)]
      [] OTHER ->
            [NoLocals EXCEPT !.pos = pos,
                !.out = delete_face(r.fan_id, db, r.fault)]

IsWrite(r) == r.op \in {"register", "delete"}

\* verify: connect and cursor.execute(SELECT); the statement stands on its
\* row, if there is one, and the connection holds a read lock until then
Select(p) ==
    LET r == preq[p]
        loc == StoreLocals(r, rows, Len(log) + 1)
    IN  /\ pc[p] = "execute" /\ r.op = "verify"
        /\ ~stale
        /\ ploc' = [ploc EXCEPT ![p] = loc]
        /\ readers' = IF loc.look.row = NoRow THEN readers ELSE readers \cup {p}
        /\ log' = Append(log, LogEntry(r))
        /\ pc' = [pc EXCEPT ![p] = "fetch"]
        /\ UNCHANGED <<threshold, rows, openConns, calls, preq, wlock, stale,
                       seqVars>>

\* verify: cursor.execute(SELECT) while a connection left open holds its
\* lock for longer than the busy timeout: the statement raises, close() is
\* skipped and the except clause answers 500
SelectBusy(p) ==
    LET r == [preq[p] EXCEPT !.fault = "execute"]
        loc == StoreLocals(r, rows, Len(log) + 1)
    IN  /\ pc[p] = "execute" /\ r.op = "verify"
        /\ stale
        /\ preq' = [preq EXCEPT ![p] = r]
        /\ ploc' = [ploc EXCEPT ![p] = loc]
        /\ openConns' = openConns + loc.look.leak
        /\ log' = Append(log, LogEntry(r))
        /\ pc' = [pc EXCEPT ![p] = "respond"]
        /\ UNCHANGED <<threshold, rows, calls, wlock, readers, stale, seqVars>>

\* verify: cursor.fetchone and conn.close
Fetch(p) ==
    /\ pc[p] = "fetch"
    /\ readers' = readers \ {p}
    /\ pc' = [pc EXCEPT ![p] = "respond"]
    /\ UNCHANGED <<threshold, rows, openConns, calls, preq, ploc, wlock, stale,
                   log, seqVars>>

\* register, delete: connect and cursor.execute; the statement takes the
\* write lock, its effect is not in the table before the commit
Execute(p) ==
    /\ pc[p] = "execute" /\ IsWrite(preq[p])
    /\ wlock = 0 /\ ~stale
    /\ wlock' = p
    /\ pc' = [pc EXCEPT ![p] = "commit"]
    /\ UNCHANGED <<threshold, rows, openConns, calls, preq, ploc, readers, stale,
                   log, seqVars>>

\* register, delete: cursor.execute while another connection holds the lock
\* for longer than the busy timeout: the statement raises, close() is
\* skipped and the except clause answers 500
ExecuteBusy(p) ==
    LET r == [preq[p] EXCEPT !.fault = "execute"]
        loc == StoreLocals(r, rows, Len(log) + 1)
    IN  /\ pc[p] = "execute" /\ IsWrite(preq[p])
        /\ wlock \notin {0, p} \/ stale
        /\ preq' = [preq EXCEPT ![p] = r]
        /\ ploc' = [ploc EXCEPT ![p] = loc]
        /\ openConns' = openConns + loc.out.leak
        /\ log' = Append(log, LogEntry(r))
        /\ pc' = [pc EXCEPT ![p] = "respond"]
        /\ UNCHANGED <<threshold, rows, calls, wlock, readers, stale, seqVars>>

\* register, delete: conn.commit, cursor.rowcount, conn.close
Commit(p) ==
    LET r == preq[p]
        loc == StoreLocals(r, rows, Len(log) + 1)
    IN  /\ pc[p] = "commit" /\ wlock = p
        /\ readers = {}
        /\ ploc' = [ploc EXCEPT ![p] = loc]
        /\ rows' = loc.out.rows
        /\ wlock' = 0
        /\ log' = Append(log, LogEntry(r))
        /\ pc' = [pc EXCEPT ![p] = "respond"]
        /\ UNCHANGED <<threshold, openConns, calls, preq, readers, stale, seqVars>>

\* register, delete: conn.commit while another connection holds a read lock
\* for longer than the busy timeout: commit raises, nothing is written,
\* close() is skipped, the connection keeps its lock and the except clause
\* answers 500
CommitBusy(p) ==
    LET r == [preq[p] EXCEPT !.fault = "commit"]
        loc == StoreLocals(r, rows, Len(log) + 1)
    IN  /\ pc[p] = "commit" /\ wlock = p
        /\ readers # {}
        /\ preq' = [preq EXCEPT ![p] = r]
        /\ ploc' = [ploc EXCEPT ![p] = loc]
        /\ openConns' = openConns + loc.out.leak
        /\ wlock' = 0
        /\ stale' = TRUE
        /\ log' = Append(log, LogEntry(r))
        /\ pc' = [pc EXCEPT ![p] = "respond"]
        /\ UNCHANGED <<threshold, rows, calls, readers, seqVars>>

\* variant: verify reads the row again when it builds its response
AnswerRereading(r, loc, T, db) ==
    IF r.op = "verify" /\ Validate(DataOf(r)).ok
        THEN VerifyAnswer(DataOf(r), VerifyLookup(r.fan_id, db, "none"), T, db)
        ELSE loc.out

\* the response a worker builds from its locals
AnswerOf(r, loc, T, db) ==
    IF r.op = "verify" /\ Validate(DataOf(r)).ok
        THEN VerifyAnswer(DataOf(r), loc.look, T, db)
        ELSE loc.out

\* the rest of the handler: build the response from the locals and return
Answer(p) ==
    LET out == AnswerOf(preq[p], ploc[p], threshold, rows) IN
    /\ pc[p] = "respond"
    /\ log' = [log EXCEPT ![ploc[p].pos] =
                 [@ EXCEPT !.done = TRUE,
                           !.resp = [status |-> out.status, body |-> out.body]]]
    /\ pc' = [pc EXCEPT ![p] = "idle"]
    /\ preq' = [preq EXCEPT ![p] = NoRequest]
    /\ ploc' = [ploc EXCEPT ![p] = NoLocals]
    /\ UNCHANGED <<threshold, rows, openConns, calls, wlock, readers, stale,
                   seqVars>>

NextConc ==
    \/ \E p \in Procs, op \in ConcOps, fan_id \in ConcIds, image \in ConcImages :
          Start(p, op, fan_id, image)
    \/ \E p \in Procs : Select(p)
    \/ \E p \in Procs : SelectBusy(p)
    \/ \E p \in Procs : Fetch(p)
    \/ \E p \in Procs : Execute(p)
    \/ \E p \in Procs : ExecuteBusy(p)
    \/ \E p \in Procs : Commit(p)
    \/ \E p \in Procs : CommitBusy(p)
    \/ \E p \in Procs : Answer(p)
    \/ Collect

\* the workers start on a table that earlier requests have left
\* SIMILARITY_THRESHOLD is not set: the default 0.6, in tenths
DefaultThreshold == 6

ConcTables == {{}, {Row("f1", tobytes(face_encodings("a")[1]))}}

\* the connection of an earlier register whose commit raised is still open:
\* the table then holds the row that the waiting commit could not replace
ConcStores ==
    [rows : ConcTables, stale : {FALSE}]
        \cup [rows : ConcTables \ {{}}, stale : {TRUE}]

InitConc ==
    /\ threshold = DefaultThreshold
    /\ \E st \in ConcStores :
        /\ rows = st.rows
        /\ stale = st.stale
    /\ pre = rows
    /\ openConns = IF stale THEN 1 ELSE 0
    /\ req = NoRequest
    /\ resp = NoResponse
    /\ calls = 0
    /\ lastReg = [u \in UserIds |-> None]
    /\ delSince = [u \in UserIds |-> "no"]
    /\ pc = [p \in Procs |-> "idle"]
    /\ preq = [p \in Procs |-> NoRequest]
    /\ ploc = [p \in Procs |-> NoLocals]
    /\ wlock = 0
    /\ readers = {}
    /\ log = << >>

SpecConc == InitConc /\ [][NextConc]_vars

\* the same requests served one after the other, in the order of the log,
\* from the table the workers started on
SeqOut(r, db) ==
    CASE r.op = "register" -> register_face(DataOf(r), db, r.fault)
      [] r.op = "verify" -> verify_face(DataOf(r), db, threshold, r.fault)
      [] r.op = "delete" -> delete_face(r.fan_id, db, r.fault)
      [] OTHER -> health_check(db)

RECURSIVE DbAfter(_, _)
DbAfter(lg, k) ==
    IF k = 0 THEN pre ELSE SeqOut(lg[k].req, DbAfter(lg, k - 1)).rows


\* ------------------------------------------------------------------ claims
Has(db, fan_id) == RowsOf(db, fan_id) # {}
ValidFields(r) == Truthy(r.fan_id) /\ Truthy(r.image)
Faces(image) == IF Decodable(image) THEN Len(face_encodings(image)) ELSE -1
EmbeddingOf(image) == face_encodings(image)[1]
TemplateOf(db, fan_id) == frombuffer(FetchOne(db, fan_id))
OtherRows(db, fan_id) == db \ RowsOf(db, fan_id)
FieldIs(body, k, t, v) == k \in DOMAIN body /\ body[k].t = t /\ body[k].v = v

\* a verify that reaches the comparison: both fields given, a row stored for
\* the identifier, a decodable image with exactly one face
ReachesComparison ==
    /\ req.op = "verify" /\ req.fault = "none" /\ ValidFields(req)
    /\ Has(pre, req.fan_id) /\ Faces(req.image) = 1

\* C1: the table holds at most one row per identifier; the row of an
\* identifier is the embedding of the image of its most recent successful
\* register, and there is none if a successful delete came after it or it was
\* never registered; a call leaves the rows of every other identifier alone.
C1_OneTemplateLatestRegister ==
    /\ \A r \in rows : r.fan_id \in UserIds
    /\ \A u \in UserIds :
        /\ RowCount(rows, u) <= 1
        /\ lastReg[u] = None => ~Has(rows, u)
        /\ lastReg[u] # None =>
              Has(rows, u) /\ TemplateOf(rows, u) = EmbeddingOf(lastReg[u])
        /\ u # req.fan_id => RowsOf(rows, u) = RowsOf(pre, u)

\* C1 witness: a successful register replaced a different vector stored for
\* the same identifier.
C1_Witness ==
    /\ req.op = "register" /\ resp.status = 200
    /\ Has(pre, req.fan_id)
    /\ TemplateOf(pre, req.fan_id) # EmbeddingOf(req.image)
    /\ TemplateOf(rows, req.fan_id) = EmbeddingOf(req.image)

\* C2 (as claimed): verify with the image of the last successful register of
\* the identifier, the store raising nothing, answers 200 with is_match = true and a distance below the
\* threshold.
C2_SameImageMatches ==
    (/\ req.op = "verify" /\ req.fault = "none" /\ ValidFields(req)
     /\ lastReg[req.fan_id] = req.image)
    => /\ resp.status = 200
       /\ "is_match" \in DOMAIN resp.body /\ resp.body.is_match.v = TRUE
       /\ "distance" \in DOMAIN resp.body
       /\ RLt(resp.body.distance.v, Rat(threshold, 10))

\* C3: verify with both fields given, for an identifier without a row when
\* the call comes, never answers 200, and answers 404 whatever the image is
\* (unless the store itself raises, which is a 500).
C3_VerifyUnregistered404 ==
    (/\ req.op = "verify" /\ ValidFields(req)
     /\ ~Has(pre, req.fan_id))
    => /\ resp.status # 200
       /\ req.fault = "none" => resp.status = 404

\* C3 witness: verify with an undecodable image for an identifier that was
\* registered and then deleted answered 404.
C3_Witness ==
    /\ req.op = "verify" /\ req.image = "!!" /\ req.fault = "none"
    /\ req.fan_id \in UserIds
    /\ delSince[req.fan_id] = "once"
    /\ resp.status = 404

\* C4: a delete of a stored identifier answers 200 and removes its row; a
\* delete of an absent identifier answers 404 and leaves the table as it was
\* (the store raising nothing in either); from a successful delete until the
\* next successful register the row stays absent, and a further delete in
\* that time answers 404.
C4_DeleteTwice ==
    /\ (req.op = "delete" /\ req.fault = "none" /\ Has(pre, req.fan_id))
          => /\ resp.status = 200
             /\ rows = OtherRows(pre, req.fan_id)
    /\ (req.op = "delete" /\ ~Has(pre, req.fan_id))
          => /\ rows = pre
             /\ resp.status # 200
             /\ req.fault = "none" => resp.status = 404
    /\ \A u \in UserIds : delSince[u] # "no" => ~Has(rows, u)
    /\ (req.op = "delete" /\ req.fault = "none" /\ delSince[req.fan_id] = "again")
          => resp.status = 404

\* C4 witness: the second of two deletes of a registered identifier answered
\* 404.
C4_Witness ==
    /\ req.op = "delete" /\ req.fault = "none" /\ resp.status = 404
    /\ delSince[req.fan_id] = "again"

\* C5: register with a decodable image holding no face or several faces
\* answers 400 and writes nothing; verify of a stored identifier with a
\* decodable image holding several faces never answers 200, and answers 400
\* (unless the store itself raises, which is a 500).
C5_FaceCountErrors ==
    /\ (/\ req.op = "register" /\ ValidFields(req)
        /\ Faces(req.image) \in {0} \cup (2..10))
          => (resp.status = 400 /\ rows = pre)
    /\ (/\ req.op = "verify" /\ ValidFields(req)
        /\ Has(pre, req.fan_id) /\ Faces(req.image) >= 2)
          => /\ resp.status # 200
             /\ req.fault = "none" => resp.status = 400

\* C5 witness: register with a two-face image for an identifier that has a
\* template was refused and the template kept.
C5_Witness ==
    /\ req.op = "register" /\ req.image = "m"
    /\ Has(pre, req.fan_id)
    /\ resp.status = 400 /\ rows = pre

\* a verify of a stored identifier with a decodable image holding no face
ZeroFaceVerify ==
    /\ req.op = "verify" /\ req.fault = "none" /\ ValidFields(req)
    /\ Has(pre, req.fan_id) /\ Faces(req.image) = 0

NoMatchValues ==
    /\ FieldIs(resp.body, "is_match", "bool", FALSE)
    /\ FieldIs(resp.body, "distance", "float", R1)
    /\ FieldIs(resp.body, "confidence_score", "float", R0)

\* C6 (as claimed): the zero-face verify answers 200 with the fields success,
\* fan_id, confidence_score, is_match, distance and threshold, is_match =
\* false, distance = 1.0, confidence_score = 0.0.
C6_ZeroFaceSameShape ==
    ZeroFaceVerify
    => /\ resp.status = 200
       /\ DOMAIN resp.body = {"success", "fan_id", "confidence_score",
                              "is_match", "distance", "threshold"}
       /\ NoMatchValues

\* C6 (amended): the zero-face verify answers 200 with the fields success,
\* fan_id, confidence_score, is_match, distance and message (no threshold),
\* is_match = false, distance = 1.0, confidence_score = 0.0.
C6_ZeroFaceNoThreshold ==
    ZeroFaceVerify
    => /\ resp.status = 200
       /\ DOMAIN resp.body = {"success", "fan_id", "confidence_score",
                              "is_match", "distance", "message"}
       /\ NoMatchValues

\* C6 witness: a zero-face verify of a stored identifier was answered.
C6_Witness == ZeroFaceVerify /\ resp.status = 200

\* C7 (as claimed): no finished request has left a connection open.
C7_ConnectionsReleased == openConns = 0

\* the requests of the log that were answered got the answers of the serial
\* run (in which a statement that met the lock timeout raises as well)
SerialAnswers ==
    \A i \in 1..Len(log) :
        log[i].done =>
            LET out == SeqOut(log[i].req, DbAfter(log, i - 1)) IN
            /\ log[i].resp.status = out.status
            /\ log[i].resp.body = out.body

\* C8: with workers interleaved at will, the table is the one the serial run
\* of the requests in the order of their store statements (commit for a
\* write, SELECT for a read) leaves, every response is the one of that serial
\* run, and no identifier has two rows; a request whose statement is not
\* atomic for the others, because its statement or its commit met the lock
\* timeout, is answered 500 and writes nothing.
C8_SerialByStoreOrder ==
    /\ rows = DbAfter(log, Len(log))
    /\ SerialAnswers
    /\ \A i \in 1..Len(log) :
          (log[i].done /\ log[i].req.fault # "none") => log[i].resp.status = 500
    /\ \A u \in UserIds : RowCount(rows, u) <= 1

\* C8 witness: two workers registered different images for one identifier,
\* both statements are done and both are about to answer 200; the table
\* holds the vector of the later statement.
C8_Witness ==
    \E p \in Procs, q \in Procs :
        /\ pc[p] = "respond" /\ pc[q] = "respond"
        /\ preq[p].op = "register" /\ preq[q].op = "register"
        /\ preq[p].fan_id = preq[q].fan_id
        /\ preq[p].image # preq[q].image
        /\ ploc[p].pos < ploc[q].pos
        /\ ploc[p].out.status = 200 /\ ploc[q].out.status = 200
        /\ Has(DbAfter(log, ploc[p].pos - 1), preq[p].fan_id)
        /\ TemplateOf(rows, preq[q].fan_id) = EmbeddingOf(preq[q].image)

\* the distance of the comparison, in tenths
ComparedDistance ==
    face_distance(TemplateOf(pre, req.fan_id), EmbeddingOf(req.image)).v

ClampedConfidence(d, t) ==
    IF RLt(RSub(R1, RDiv(d, t)), R0) THEN R0
    ELSE IF RLt(R1, RSub(R1, RDiv(d, t))) THEN R1
    ELSE RSub(R1, RDiv(d, t))

\* C9 (as claimed): a verify that reaches the comparison answers with
\* is_match = (d < t), confidence_score = clamp(1 - d/t, 0, 1), threshold = t,
\* and is_match exactly when confidence_score > 0.
C9_ThresholdDecision ==
    ReachesComparison
    => LET d == ComparedDistance
           t == Rat(threshold, 10)
       IN  /\ "is_match" \in DOMAIN resp.body
           /\ resp.body.is_match.v = RLt(d, t)
           /\ "confidence_score" \in DOMAIN resp.body
           /\ resp.body.confidence_score.v = ClampedConfidence(d, t)
           /\ "threshold" \in DOMAIN resp.body
           /\ resp.body.threshold.v = t
           /\ resp.body.is_match.v = RLt(R0, resp.body.confidence_score.v)

\* C10: the table changes only in a register answered 200, which writes the
\* row of its identifier and no other, or in a delete answered 200, which
\* removes the row of its identifier and no other; every other call, and
\* every call answered 4xx or 5xx, leaves the table as it was.
C10_OnlySuccessfulWritesChange ==
    /\ (req.op = "register" /\ resp.status = 200)
          => rows = OtherRows(pre, req.fan_id)
                      \cup {Row(req.fan_id, tobytes(EmbeddingOf(req.image)))}
    /\ (req.op = "delete" /\ resp.status = 200)
          => (Has(pre, req.fan_id) /\ rows = OtherRows(pre, req.fan_id))
    /\ (req.op \notin {"register", "delete"} \/ resp.status # 200)
          => rows = pre

\* C10 witness: a register that would have changed the table failed in commit,
\* answered 500 and left the table as it was.
C10_Witness ==
    /\ req.op = "register" /\ req.fault = "commit"
    /\ ValidFields(req) /\ Faces(req.image) = 1
    /\ Has(pre, req.fan_id)
    /\ TemplateOf(pre, req.fan_id) # EmbeddingOf(req.image)
    /\ resp.status = 500 /\ rows = pre

====
